---- MODULE Spec2Model ----
(***************************************************************************)
(* UrlShortenerService (src/lib.rs): an event log, a link table and click  *)
(* counters, driven by the three commands of CommandHandler and the query  *)
(* of QueryHandler.  One service instance, called sequentially (&mut self). *)
(***************************************************************************)
EXTENDS Integers, Sequences, FiniteSets, TLC

\* ---- bounds of the model ------------------------------------------------
NumSlugs == 3
NumUrls == 2
\* Cap on the length of the event log (Vec<Event> grows without bound).
MaxEvents == 3

\* Option::None for the `slug: Option<Slug>` argument, and "no value" in
\* the observation records below.
NoSlug == 0
NoUrl == 0

Slugs == 1..NumSlugs
\* The slugs generate_random_slug can produce (8 alphanumeric characters);
\* the last slug stands for the strings only a caller can supply.
GenSlugs == 1..(NumSlugs - 1)
Urls == 1..NumUrls

VARIABLES
    events,          \* Vec<Event>
    links,           \* HashMap<Slug, Url>
    click_counts,    \* HashMap<Slug, u64>
    pc,              \* "idle", or "while" inside the collision-retry loop
    generated_slug,  \* local of handle_create_short_link (None branch)
    pending_url,     \* the url argument of the create call in progress
    last,            \* the last call that returned: operation, arguments, result
    tick,            \* flips each time a call returns
    ok_count,        \* number of commands that returned Ok so far
    redirects_ok,    \* per slug: number of handle_redirect calls that returned Ok
    changed_to,      \* per slug: new_url of the latest successful change (NoUrl if none)
    prior_url        \* per slug: url held just before the latest successful change

service == <<events, links, click_counts>>
history == <<ok_count, redirects_ok, changed_to, prior_url>>
returned == tick' = 1 - tick
loop == <<pc, generated_slug, pending_url>>
vars == <<events, links, click_counts, pc, generated_slug, pending_url,
          last, tick, ok_count, redirects_ok, changed_to, prior_url>>

\* ---- data ---------------------------------------------------------------
LinkCreated(slug, url) == [type |-> "LinkCreated", slug |-> slug, url |-> url]
LinkRedirected(slug) == [type |-> "LinkRedirected", slug |-> slug]

\* Result<ShortLink, ShortenerError> and Result<Stats, ShortenerError>
OkShortLink(slug, url) ==
    [tag |-> "Ok", err |-> "", slug |-> slug, url |-> url, redirects |-> 0]
OkStats(slug, url, redirects) ==
    [tag |-> "Ok", err |-> "", slug |-> slug, url |-> url, redirects |-> redirects]
Err(e) ==
    [tag |-> "Err", err |-> e, slug |-> NoSlug, url |-> NoUrl, redirects |-> 0]

Call(op, slug, url, ret) == [op |-> op, slug |-> slug, url |-> url, ret |-> ret]

\* ---- HashMap ------------------------------------------------------------
HashMapNew == [k \in {} |-> 0]
contains_key(map, k) == k \in DOMAIN map
insert(map, k, v) == [x \in (DOMAIN map) \cup {k} |-> IF x = k THEN v ELSE map[x]]
\* slip: the entry is created with 0 and the increment is missing
entry_or_insert_zero(map, k) ==
    insert(map, k, IF contains_key(map, k) THEN map[k] ELSE 0)

\* *map.entry(k).or_insert(0) += 1
entry_or_insert_add(map, k) ==
    insert(map, k, (IF contains_key(map, k) THEN map[k] ELSE 0) + 1)
\* slip: a missing counter reads as 1
get_unwrap_or_one(map, k) == IF contains_key(map, k) THEN map[k] ELSE 1

\* *map.get(k).unwrap_or(&0)
get_unwrap_or(map, k) == IF contains_key(map, k) THEN map[k] ELSE 0

\* ---- UrlShortenerService ------------------------------------------------
Init ==
    /\ events = <<>>
    /\ links = HashMapNew
    /\ click_counts = HashMapNew
    /\ pc = "idle"
    /\ generated_slug = NoSlug
    /\ pending_url = NoUrl
    /\ last = Call("new", NoSlug, NoUrl, Err(""))
    /\ tick = 0
    /\ ok_count = 0
    /\ redirects_ok = [s \in Slugs |-> 0]
    /\ changed_to = [s \in Slugs |-> NoUrl]
    /\ prior_url = [s \in Slugs |-> NoUrl]

\* slip: links.entry(slug).or_insert(url), which keeps an existing url
add_link_created_event_or_insert(slug, url) ==
    /\ events' = Append(events, LinkCreated(slug, url))
    /\ links' = IF contains_key(links, slug) THEN links ELSE insert(links, slug, url)
    /\ UNCHANGED click_counts

\* slip: the event is pushed but the link table is not updated
add_link_created_event_log_only(slug, url) ==
    /\ events' = Append(events, LinkCreated(slug, url))
    /\ UNCHANGED <<links, click_counts>>

\* slip: (re)creating a link also drops its click counter
add_link_created_event_reset_clicks(slug, url) ==
    /\ events' = Append(events, LinkCreated(slug, url))
    /\ links' = insert(links, slug, url)
    /\ click_counts' = [k \in (DOMAIN click_counts) \ {slug} |-> click_counts[k]]

\* slip: events.insert(0, ..) instead of events.push(..)
add_link_created_event_prepend(slug, url) ==
    /\ events' = <<LinkCreated(slug, url)>> \o events
    /\ links' = insert(links, slug, url)
    /\ UNCHANGED click_counts

\* slip: (re)creating a link writes a zero counter for it
add_link_created_event_zero_clicks(slug, url) ==
    /\ events' = Append(events, LinkCreated(slug, url))
    /\ links' = insert(links, slug, url)
    /\ click_counts' = insert(click_counts, slug, 0)

\* slip: the link table is rebuilt with the new link only
add_link_created_event_replace_table(slug, url) ==
    /\ events' = Append(events, LinkCreated(slug, url))
    /\ links' = insert(HashMapNew, slug, url)
    /\ UNCHANGED click_counts

\* slip: the event is pushed only when the slug is new to the table
add_link_created_event_new_only(slug, url) ==
    /\ events' = IF contains_key(links, slug)
                 THEN events
                 ELSE Append(events, LinkCreated(slug, url))
    /\ links' = insert(links, slug, url)
    /\ UNCHANGED click_counts

\* slip: the new url is recorded in the log but an existing entry is kept
add_link_created_event_keep_entry(slug, url) ==
    /\ events' = Append(events, LinkCreated(slug, url))
    /\ links' = IF contains_key(links, slug) THEN links ELSE insert(links, slug, url)
    /\ UNCHANGED click_counts

add_link_created_event(slug, url) ==
    /\ events' = Append(events, LinkCreated(slug, url))
    /\ links' = insert(links, slug, url)
    /\ UNCHANGED click_counts

\* slip: the entry starts at 1 (or_insert(1)) and is then incremented
add_link_redirected_event_from_one(slug) ==
    /\ events' = Append(events, LinkRedirected(slug))
    /\ click_counts' = insert(click_counts, slug,
                              (IF contains_key(click_counts, slug)
                               THEN click_counts[slug] ELSE 1) + 1)
    /\ UNCHANGED links

\* slip: the redirect is logged but the counter is not updated
add_link_redirected_event_no_count(slug) ==
    /\ events' = Append(events, LinkRedirected(slug))
    /\ UNCHANGED <<links, click_counts>>

\* slip: the counter is set to 1 instead of being incremented
add_link_redirected_event_set_one(slug) ==
    /\ events' = Append(events, LinkRedirected(slug))
    /\ click_counts' = insert(click_counts, slug, 1)
    /\ UNCHANGED links

add_link_redirected_event(slug) ==
    /\ events' = Append(events, LinkRedirected(slug))
    /\ click_counts' = entry_or_insert_add(click_counts, slug)
    /\ UNCHANGED links

\* slip: the uniqueness check of the supplied slug is missing
custom_slug_in_use_unchecked(custom_slug) == FALSE

\* line 234: if self.links.contains_key(&custom_slug)
custom_slug_in_use(custom_slug) == contains_key(links, custom_slug)

\* slip: the generated slug is used without the collision check
collides_unchecked(slug) == FALSE

\* slip: the loop condition is inverted (while !contains_key)
collides_inverted(slug) == ~contains_key(links, slug)

\* line 241: while self.links.contains_key(&generated_slug)
collides(slug) == contains_key(links, slug)

\* handle_create_short_link(url, slug): the Some branch runs to its return;
\* the None branch draws the first candidate and enters the retry loop.
handle_create_short_link(url, slug) ==
    /\ pc = "idle"
    /\ IF slug # NoSlug
       THEN IF custom_slug_in_use(slug)
            THEN /\ returned
                 /\ last' = Call("handle_create_short_link", slug, url,
                                 Err("SlugAlreadyInUse"))
                 /\ UNCHANGED <<service, history, loop>>
            ELSE /\ Len(events) < MaxEvents
                 /\ add_link_created_event(slug, url)
                 /\ returned
                 /\ last' = Call("handle_create_short_link", slug, url,
                                 OkShortLink(slug, url))
                 /\ ok_count' = ok_count + 1
                 /\ UNCHANGED <<redirects_ok, changed_to, prior_url, loop>>
       ELSE /\ Len(events) < MaxEvents
            /\ \E g \in GenSlugs : generated_slug' = g
            /\ pending_url' = url
            /\ pc' = "while"
            /\ UNCHANGED <<service, history, last, tick>>

\* one more iteration of the loop: the candidate collides, draw another
generate_again ==
    /\ pc = "while"
    /\ collides(generated_slug)
    /\ \E g \in GenSlugs : generated_slug' = g
    /\ UNCHANGED <<service, history, last, tick, pc, pending_url>>

\* the loop exits; lines 248-250
create_generated ==
    /\ pc = "while"
    /\ ~collides(generated_slug)
    /\ add_link_created_event(generated_slug, pending_url)
    /\ returned
    /\ last' = Call("handle_create_short_link", NoSlug, pending_url,
                    OkShortLink(generated_slug, pending_url))
    /\ ok_count' = ok_count + 1
    /\ pc' = "idle"
    /\ generated_slug' = NoSlug
    /\ pending_url' = NoUrl
    /\ UNCHANGED <<redirects_ok, changed_to, prior_url>>

\* slip: the counter entry is created before the slug is looked up
handle_redirect_entry_first(slug) ==
    /\ pc = "idle"
    /\ IF ~contains_key(links, slug)
       THEN /\ returned
            /\ last' = Call("handle_redirect", slug, NoUrl, Err("SlugNotFound"))
            /\ click_counts' = insert(click_counts, slug,
                                      get_unwrap_or(click_counts, slug))
            /\ UNCHANGED <<events, links, history, loop>>
       ELSE /\ Len(events) < MaxEvents
            /\ add_link_redirected_event(slug)
            /\ returned
            /\ last' = Call("handle_redirect", slug, NoUrl,
                            OkShortLink(slug, links[slug]))
            /\ ok_count' = ok_count + 1
            /\ redirects_ok' = [redirects_ok EXCEPT ![slug] = @ + 1]
            /\ UNCHANGED <<changed_to, prior_url, loop>>

\* slip: the redirect is logged before the slug is looked up
handle_redirect_log_first(slug) ==
    /\ pc = "idle"
    /\ Len(events) < MaxEvents
    /\ returned
    /\ IF ~contains_key(links, slug)
       THEN /\ events' = Append(events, LinkRedirected(slug))
            /\ last' = Call("handle_redirect", slug, NoUrl, Err("SlugNotFound"))
            /\ UNCHANGED <<links, click_counts, history, loop>>
       ELSE /\ add_link_redirected_event(slug)
            /\ last' = Call("handle_redirect", slug, NoUrl,
                            OkShortLink(slug, links[slug]))
            /\ ok_count' = ok_count + 1
            /\ redirects_ok' = [redirects_ok EXCEPT ![slug] = @ + 1]
            /\ UNCHANGED <<changed_to, prior_url, loop>>

handle_redirect(slug) ==
    /\ pc = "idle"
    /\ IF ~contains_key(links, slug)
       THEN /\ returned
            /\ last' = Call("handle_redirect", slug, NoUrl, Err("SlugNotFound"))
            /\ UNCHANGED <<service, history, loop>>
       ELSE /\ Len(events) < MaxEvents
            /\ add_link_redirected_event(slug)
            /\ returned
            /\ last' = Call("handle_redirect", slug, NoUrl,
                            OkShortLink(slug, links[slug]))
            /\ ok_count' = ok_count + 1
            /\ redirects_ok' = [redirects_ok EXCEPT ![slug] = @ + 1]
            /\ UNCHANGED <<changed_to, prior_url, loop>>

handle_change_short_link(slug, new_url) ==
    /\ pc = "idle"
    /\ IF ~contains_key(links, slug)
       THEN /\ returned
            /\ last' = Call("handle_change_short_link", slug, new_url,
                            Err("SlugNotFound"))
            /\ UNCHANGED <<service, history, loop>>
       ELSE /\ Len(events) < MaxEvents
            /\ add_link_created_event(slug, new_url)
            /\ returned
            /\ last' = Call("handle_change_short_link", slug, new_url,
                            OkShortLink(slug, new_url))
            /\ ok_count' = ok_count + 1
            /\ changed_to' = [changed_to EXCEPT ![slug] = new_url]
            /\ prior_url' = [prior_url EXCEPT ![slug] = links[slug]]
            /\ UNCHANGED <<redirects_ok, loop>>

\* slip: a missing slug is reported with the wrong error kind
stats_of_invalid_url(link_map, count_map, slug) ==
    IF ~contains_key(link_map, slug)
    THEN Err("InvalidUrl")
    ELSE OkStats(slug, link_map[slug], get_unwrap_or(count_map, slug))

\* the value get_stats(slug) returns on a service with these two maps
stats_of(link_map, count_map, slug) ==
    IF ~contains_key(link_map, slug)
    THEN Err("SlugNotFound")
    ELSE OkStats(slug, link_map[slug], get_unwrap_or(count_map, slug))

\* the value get_stats(slug) returns in the current state
get_stats_ret(slug) == stats_of(links, click_counts, slug)

\* slip: the counter is read through entry(slug).or_insert(0)
get_stats_or_insert(slug) ==
    /\ pc = "idle"
    /\ returned
    /\ last' = Call("get_stats", slug, NoUrl, get_stats_ret(slug))
    /\ click_counts' = IF contains_key(links, slug)
                       THEN insert(click_counts, slug, get_unwrap_or(click_counts, slug))
                       ELSE click_counts
    /\ UNCHANGED <<events, links, history, loop>>

get_stats(slug) ==
    /\ pc = "idle"
    /\ returned
    /\ last' = Call("get_stats", slug, NoUrl, get_stats_ret(slug))
    /\ UNCHANGED <<service, history, loop>>

Next ==
    \/ \E url \in Urls, slug \in Slugs \cup {NoSlug} : handle_create_short_link(url, slug)
    \/ generate_again
    \/ create_generated
    \/ \E slug \in Slugs : handle_redirect(slug)
    \/ \E slug \in Slugs, new_url \in Urls : handle_change_short_link(slug, new_url)
    \/ \E slug \in Slugs : get_stats(slug)

Spec == Init /\ [][Next]_vars

TypeOK ==
    /\ DOMAIN links \subseteq Slugs
    /\ \A s \in DOMAIN links : links[s] \in Urls
    /\ DOMAIN click_counts \subseteq Slugs
    /\ Len(events) <= MaxEvents
    /\ pc \in {"idle", "while"}
    /\ tick \in {0, 1}

\* ---- properties ----------------------------------------------------------
Commands == {"handle_create_short_link", "handle_redirect", "handle_change_short_link"}
IsPrefix(s, t) == Len(s) <= Len(t) /\ SubSeq(t, 1, Len(s)) = s
\* the event a successful command records
EventOf(call) ==
    IF call.op = "handle_redirect"
    THEN LinkRedirected(call.ret.slug)
    ELSE LinkCreated(call.ret.slug, call.ret.url)

\* C1: handle_create_short_link(url, Some(slug)) with a slug that is already
\* a key of the link table returns Err(SlugAlreadyInUse) and leaves the event
\* log, the link table and the click counters unchanged.
C1_DuplicateSlugRejected ==
    [][(/\ returned
        /\ last'.op = "handle_create_short_link"
        /\ last'.slug # NoSlug
        /\ contains_key(links, last'.slug))
       => (/\ last'.ret = Err("SlugAlreadyInUse")
           /\ UNCHANGED service)]_vars

\* a duplicate create, with another url than the stored one, was rejected
\* while the slug already had clicks
C1_Witness ==
    /\ last.op = "handle_create_short_link"
    /\ last.slug # NoSlug
    /\ last.ret = Err("SlugAlreadyInUse")
    /\ contains_key(links, last.slug)
    /\ links[last.slug] # last.url
    /\ contains_key(click_counts, last.slug)

\* C2: for a slug that is not a key of the link table, handle_redirect,
\* handle_change_short_link and get_stats each return Err(SlugNotFound) and
\* leave the event log, the link table and the click counters unchanged.
C2_NotFoundNoMutation ==
    [][(/\ returned
        /\ last'.op \in {"handle_redirect", "handle_change_short_link", "get_stats"}
        /\ ~contains_key(links, last'.slug))
       => (/\ last'.ret = Err("SlugNotFound")
           /\ UNCHANGED service)]_vars

\* a redirect of an unknown slug failed in a service that holds other links
\* and clicks
C2_Witness ==
    /\ last.op = "handle_redirect"
    /\ last.ret = Err("SlugNotFound")
    /\ ~contains_key(links, last.slug)
    /\ ~contains_key(click_counts, last.slug)
    /\ DOMAIN links # {}
    /\ DOMAIN click_counts # {}

\* C3: for every slug in the link table, get_stats(slug).redirects equals the
\* number of successful handle_redirect calls made on that slug so far.
C3_RedirectsCounted ==
    \A slug \in DOMAIN links :
        /\ get_stats_ret(slug).tag = "Ok"
        /\ get_stats_ret(slug).redirects = redirects_ok[slug]

\* a slug has been redirected twice and its counter is read
C3_Witness ==
    \E slug \in DOMAIN links :
        /\ redirects_ok[slug] >= 2
        /\ last.op = "get_stats"
        /\ last.slug = slug
        /\ last.ret.redirects = 2

\* C4 (as stated): after a successful handle_change_short_link(slug, new_url),
\* until the next successful change of the slug, get_stats and handle_redirect
\* return new_url, and the url held before the change is not returned for that
\* slug by any operation.
C4_PriorUrlNeverReturned ==
    (last.ret.tag = "Ok" /\ changed_to[last.ret.slug] # NoUrl)
    => (/\ last.op \in {"get_stats", "handle_redirect"}
           => last.ret.url = changed_to[last.ret.slug]
        /\ last.ret.url # prior_url[last.ret.slug])

\* C4 (amended): after a successful handle_change_short_link(slug, new_url),
\* until the next successful change of the slug, get_stats and handle_redirect
\* return new_url, and the url held before the change is not returned for that
\* slug by any operation unless it equals new_url.
C4_NewUrlVisible ==
    (last.ret.tag = "Ok" /\ changed_to[last.ret.slug] # NoUrl)
    => (/\ last.op \in {"get_stats", "handle_redirect"}
           => last.ret.url = changed_to[last.ret.slug]
        /\ prior_url[last.ret.slug] # changed_to[last.ret.slug]
           => last.ret.url # prior_url[last.ret.slug])

\* a redirect after a change to a different url reports the new url
C4_Witness ==
    /\ last.op = "handle_redirect"
    /\ last.ret.tag = "Ok"
    /\ changed_to[last.slug] # NoUrl
    /\ prior_url[last.slug] # changed_to[last.slug]
    /\ last.ret.url = changed_to[last.slug]

\* C5: every command is all-or-nothing: a call that returns Ok appends exactly
\* one event and applies its read-state update, a call that returns Err changes
\* nothing; the length of the event log equals the number of commands that
\* returned Ok.
C5_AllOrNothing ==
    /\ [](Len(events) = ok_count)
    /\ [][(returned /\ last'.op \in Commands)
          => IF last'.ret.tag = "Ok"
             THEN /\ Len(events') = Len(events) + 1
                  /\ IF last'.op = "handle_redirect"
                     THEN /\ links' = links
                          /\ click_counts' =
                                 insert(click_counts, last'.ret.slug,
                                        get_unwrap_or(click_counts, last'.ret.slug) + 1)
                     ELSE /\ links' = insert(links, last'.ret.slug, last'.ret.url)
                          /\ click_counts' = click_counts
             ELSE UNCHANGED service]_vars

\* a command failed after two or more commands had succeeded
C5_Witness ==
    /\ last.op \in Commands
    /\ last.ret.tag = "Err"
    /\ ok_count >= 2
    /\ Len(events) = ok_count

\* C6: a handle_create_short_link(url, None) call that returns does so with
\* Ok(ShortLink{slug, url}) whose slug was not a key of the link table before
\* the call; no existing mapping is overwritten and the table grows by one.
C6_GeneratedSlugFresh ==
    [][(/\ returned
        /\ last'.op = "handle_create_short_link"
        /\ last'.slug = NoSlug)
       => (/\ last'.ret.tag = "Ok"
           /\ last'.ret.url = last'.url
           /\ ~contains_key(links, last'.ret.slug)
           /\ contains_key(links', last'.ret.slug)
           /\ links'[last'.ret.slug] = last'.url
           /\ \A k \in DOMAIN links : contains_key(links', k) /\ links'[k] = links[k]
           /\ Cardinality(DOMAIN links') = Cardinality(DOMAIN links) + 1)]_vars

\* a slug was generated while another slug of the generator's range was taken
C6_Witness ==
    /\ last.op = "handle_create_short_link"
    /\ last.slug = NoSlug
    /\ last.ret.tag = "Ok"
    /\ \E k \in GenSlugs : k # last.ret.slug /\ contains_key(links, k)

\* C7: handle_create_short_link(url, Some(slug)) with a slug that is not a
\* key of the link table returns Ok(ShortLink) with that slug and url, adds
\* exactly one entry, and get_stats(slug) right after it returns that url with
\* redirects = 0.
C7_CustomSlugCreated ==
    [][(/\ returned
        /\ last'.op = "handle_create_short_link"
        /\ last'.slug # NoSlug
        /\ ~contains_key(links, last'.slug))
       => (/\ last'.ret = OkShortLink(last'.slug, last'.url)
           /\ Cardinality(DOMAIN links') = Cardinality(DOMAIN links) + 1
           /\ stats_of(links', click_counts', last'.slug) = OkStats(last'.slug, last'.url, 0))]_vars

\* a link was created under a supplied slug next to a link that has clicks
C7_Witness ==
    /\ last.op = "handle_create_short_link"
    /\ last.slug # NoSlug
    /\ last.ret = OkShortLink(last.slug, last.url)
    /\ DOMAIN click_counts # {}
    /\ ~contains_key(click_counts, last.slug)

\* C8: get_stats is a pure read: whether it returns Ok or Err it leaves the
\* event log, the link table and the click counters unchanged, and inserts no
\* zero counter for a slug that was never redirected.
C8_GetStatsPure ==
    [][(returned /\ last'.op = "get_stats") => UNCHANGED service]_vars

\* get_stats succeeded with 0 redirects and the slug still has no counter entry
C8_Witness ==
    /\ last.op = "get_stats"
    /\ last.ret.tag = "Ok"
    /\ last.ret.redirects = 0
    /\ contains_key(links, last.slug)
    /\ ~contains_key(click_counts, last.slug)

\* C9: a successful handle_change_short_link(slug, new_url) changes only the
\* url stored under slug: all click counters, the set of slugs and the urls
\* of the other slugs are unchanged.
C9_ChangeFrame ==
    [][(/\ returned
        /\ last'.op = "handle_change_short_link"
        /\ last'.ret.tag = "Ok")
       => (/\ click_counts' = click_counts
           /\ stats_of(links', click_counts', last'.slug).redirects
                = stats_of(links, click_counts, last'.slug).redirects
           /\ DOMAIN links' = DOMAIN links
           /\ links'[last'.slug] = last'.url
           /\ \A k \in (DOMAIN links) \ {last'.slug} : links'[k] = links[k])]_vars

\* the url of a slug that has clicks was changed to a different url
C9_Witness ==
    /\ last.op = "handle_change_short_link"
    /\ last.ret.tag = "Ok"
    /\ contains_key(click_counts, last.slug)
    /\ prior_url[last.slug] # last.url

\* C10: the event log is append-only and ordered by occurrence: the log
\* before an operation is a prefix of the log after it, and the event of the
\* k-th successful command is at position k.
C10_AppendOnly ==
    [][/\ IsPrefix(events, events')
       /\ (returned /\ last'.op \in Commands /\ last'.ret.tag = "Ok")
          => (/\ Len(events') = ok_count'
              /\ events'[ok_count'] = EventOf(last'))]_vars

\* the third successful command put its event at position 3, after events
\* of both kinds
C10_Witness ==
    /\ ok_count = 3
    /\ Len(events) = 3
    /\ last.ret.tag = "Ok"
    /\ events[3] = EventOf(last)
    /\ \E i, j \in 1..2 : events[i].type = "LinkCreated" /\ events[j].type = "LinkRedirected"

FairSpec ==
    /\ Spec
    /\ WF_vars(generate_again)
    /\ WF_vars(generate_again /\ ~collides(generated_slug'))
    /\ WF_vars(create_generated)

\* C12 (as stated): every handle_create_short_link(url, None) call eventually
\* terminates: in every reachable state, under fair random draws, the retry
\* loop finds a slug absent from the link table and the call returns.
C12_CreateTerminates == (pc = "while") ~> (pc = "idle")

\* C12 (amended): a handle_create_short_link(url, None) call made while some
\* slug of the generator's range is absent from the link table eventually
\* returns, under fair random draws.
C12_CreateTerminatesIfFree ==
    (pc = "while" /\ \E g \in GenSlugs : ~contains_key(links, g)) ~> (pc = "idle")

\* the loop holds a colliding candidate while a free slug can still be drawn
C12_Witness ==
    /\ pc = "while"
    /\ collides(generated_slug)
    /\ \E g \in GenSlugs : ~contains_key(links, g)

\* C13: for every slug, the redirect count reported by get_stats never
\* decreases: no operation lowers or resets a slug's click count.
C13_CountMonotone ==
    [][/\ \A slug \in DOMAIN links :
             /\ stats_of(links', click_counts', slug).tag = "Ok"
             /\ stats_of(links', click_counts', slug).redirects
                   >= stats_of(links, click_counts, slug).redirects
       /\ \A slug \in Slugs :
             get_unwrap_or(click_counts', slug) >= get_unwrap_or(click_counts, slug)]_vars

\* the url of a slug with clicks was overwritten by the url it already had
C13_Witness ==
    /\ last.op = "handle_change_short_link"
    /\ last.ret.tag = "Ok"
    /\ prior_url[last.slug] = last.url
    /\ get_stats_ret(last.slug).redirects >= 1

\* C14: links are never deleted: a slug that is a key of the link table stays
\* a key; every slug an operation succeeded for is a key, and from then on
\* redirect, change and get_stats do not fail with SlugNotFound for it and
\* create with that supplied slug fails with SlugAlreadyInUse.
C14_NeverDeleted ==
    [][/\ DOMAIN links \subseteq DOMAIN links'
       /\ (returned /\ last'.ret.tag = "Ok") => contains_key(links', last'.ret.slug)
       /\ (returned /\ contains_key(links, last'.slug))
          => IF last'.op = "handle_create_short_link"
             THEN last'.ret = Err("SlugAlreadyInUse")
             ELSE last'.ret.tag = "Ok"]_vars

\* a link created by the first command is still served after two more
\* successful commands
C14_Witness ==
    /\ Len(events) = 3
    /\ events[1].type = "LinkCreated"
    /\ events[2].slug # events[1].slug
    /\ events[3].slug # events[1].slug
    /\ last.op = "get_stats"
    /\ last.slug = events[1].slug
    /\ last.ret.tag = "Ok"

\* Replay of an event log: the positions of the events of one kind for a slug,
\* the link table and the click count they determine.
CreatedAt(evs, slug) ==
    {i \in 1..Len(evs) : evs[i].type = "LinkCreated" /\ evs[i].slug = slug}
RedirectedAt(evs, slug) ==
    {i \in 1..Len(evs) : evs[i].type = "LinkRedirected" /\ evs[i].slug = slug}
LastOf(positions) == CHOOSE i \in positions : \A j \in positions : j <= i
ReplayLinks(evs) ==
    [slug \in {k \in Slugs : CreatedAt(evs, k) # {}} |->
        evs[LastOf(CreatedAt(evs, slug))].url]
ReplayClicks(evs, slug) == Cardinality(RedirectedAt(evs, slug))

\* C15: the link table equals the replay of the event log: its keys are the
\* slugs of the LinkCreated events and each url is that of the last
\* LinkCreated event for the slug.
C15_LinksAreReplay == links = ReplayLinks(events)

\* the log holds two LinkCreated events with different urls for one slug
C15_Witness ==
    \E slug \in DOMAIN links :
        /\ Cardinality(CreatedAt(events, slug)) = 2
        /\ \E i \in CreatedAt(events, slug) : events[i].url # links[slug]
        /\ \E other \in DOMAIN links : other # slug

\* C16: the click counters equal the replay of the event log: for every slug
\* the count read by get_stats (stored value, or 0 when absent) equals the
\* number of LinkRedirected events for that slug.
C16_ClicksAreReplay ==
    \A slug \in Slugs :
        /\ get_unwrap_or(click_counts, slug) = ReplayClicks(events, slug)
        /\ contains_key(links, slug)
           => get_stats_ret(slug).redirects = ReplayClicks(events, slug)

\* two slugs were created and one of them redirected once
C16_Witness ==
    \E slug, other \in DOMAIN links :
        /\ slug # other
        /\ ReplayClicks(events, slug) = 1
        /\ click_counts[slug] = 1
        /\ ~contains_key(click_counts, other)
        /\ last.op = "handle_redirect"

\* C17: a successful handle_redirect(slug) returns ShortLink{slug, url} with
\* the url currently stored under slug, increases that slug's click counter
\* by exactly one (to 1 if it had no entry), and leaves the link table and the
\* counters of the other slugs unchanged.
C17_RedirectEffect ==
    [][(/\ returned
        /\ last'.op = "handle_redirect"
        /\ last'.ret.tag = "Ok")
       => (/\ contains_key(links, last'.slug)
           /\ last'.ret = OkShortLink(last'.slug, links[last'.slug])
           /\ links' = links
           /\ DOMAIN click_counts' = (DOMAIN click_counts) \cup {last'.slug}
           /\ click_counts'[last'.slug] =
                 IF contains_key(click_counts, last'.slug)
                 THEN click_counts[last'.slug] + 1
                 ELSE 1
           /\ \A k \in (DOMAIN click_counts) \ {last'.slug} :
                 click_counts'[k] = click_counts[k])]_vars

\* the second redirect of a slug returned the stored url and raised the
\* counter from 1 to 2
C17_Witness ==
    /\ last.op = "handle_redirect"
    /\ last.ret.tag = "Ok"
    /\ last.ret.url = links[last.slug]
    /\ click_counts[last.slug] = 2

\* C18: the event appended by a successful command carries the command's
\* data and is the last element of the log when the command returns: create
\* appends LinkCreated with the slug and url of the returned ShortLink, change
\* appends LinkCreated{slug, new_url}, redirect appends LinkRedirected{slug}.
C18_EventCarriesCommand ==
    (last.op \in Commands /\ last.ret.tag = "Ok")
    => /\ Len(events) >= 1
       /\ last.op = "handle_create_short_link"
          => /\ events[Len(events)] = LinkCreated(last.ret.slug, last.ret.url)
             /\ last.ret.url = last.url
             /\ last.slug # NoSlug => last.ret.slug = last.slug
       /\ last.op = "handle_change_short_link"
          => events[Len(events)] = LinkCreated(last.slug, last.url)
       /\ last.op = "handle_redirect"
          => events[Len(events)] = LinkRedirected(last.slug)

\* a change to a different url left LinkCreated{slug, new_url} at the end of
\* the log, after the LinkCreated event of the creation
C18_Witness ==
    /\ last.op = "handle_change_short_link"
    /\ last.ret.tag = "Ok"
    /\ Len(events) >= 2
    /\ events[Len(events)] = LinkCreated(last.slug, last.url)
    /\ \E i \in 1..(Len(events) - 1) :
          /\ events[i].type = "LinkCreated"
          /\ events[i].slug = last.slug
          /\ events[i].url # last.url

\* C19: the keys of the click-counter map are keys of the link table, and
\* every stored counter value is at least 1.
C19_CountersOfLinks ==
    /\ DOMAIN click_counts \subseteq DOMAIN links
    /\ \A slug \in DOMAIN click_counts : click_counts[slug] >= 1

\* one link has a counter and another link has none
C19_Witness ==
    /\ DOMAIN click_counts # {}
    /\ DOMAIN click_counts # DOMAIN links
    /\ \E slug \in DOMAIN click_counts : click_counts[slug] = 1

\* C20: in the event log every LinkRedirected{slug} event is preceded, at an
\* earlier position, by a LinkCreated event for the same slug.
C20_CreatedBeforeRedirected ==
    \A i \in 1..Len(events) :
        events[i].type = "LinkRedirected"
        => \E j \in 1..(i - 1) :
              events[j].type = "LinkCreated" /\ events[j].slug = events[i].slug

\* a redirect is logged after the creations of two links, and a redirect of
\* a slug that was never created has just been refused
C20_Witness ==
    /\ Len(events) = 3
    /\ events[1].type = "LinkCreated"
    /\ events[2].type = "LinkCreated"
    /\ events[3].type = "LinkRedirected"
    /\ events[3].slug = events[1].slug
    /\ last.op = "handle_redirect"
    /\ last.ret.tag = "Err"
====
